---- MODULE Spec2Model ----
(***************************************************************************)
(* Model of src/common.py: the next-trigger calculator (next_date), the    *)
(* business-day aligner (monday_and_friday, first_day_in_period), the      *)
(* date-range iterator (class Dates) and persistent_generate over it.      *)
(*                                                                         *)
(* A datetime is a record [ord, sec, us]: the proleptic Gregorian ordinal  *)
(* of its date (datetime.toordinal), the second of the day and the         *)
(* microsecond.  A timedelta is a record [days, secs], normalised as       *)
(* Python normalises it (0 <= secs < 86400).                               *)
(***************************************************************************)
EXTENDS Integers, Sequences, FiniteSets, TLC

VARIABLES last_date, periodicity, day, time_, prev_date, status,
          date, period, aligned,
          it, out, itstate, restarted,
          file, pg, pgout, crash_at

trigVars  == <<last_date, periodicity, day, time_, prev_date, status>>
alignVars == <<date, period, aligned>>
datesVars == <<it, out, itstate, restarted>>
persistVars == <<file, pg, pgout, crash_at>>
vars      == <<trigVars, alignVars, datesVars, persistVars>>

\* no recovery file, no generator
NoFile == <<"no file">>
PersistIdle ==
    /\ file = NoFile
    /\ pg = [pc |-> "", initial_element |-> [type |-> "None", v |-> <<>>], ind |-> 0]
    /\ pgout = <<>>
    /\ crash_at = <<>>

----------------------------------------------------------------------------
(* The calendar of Python's datetime module, as the source uses it.        *)

SecondsPerDay == 24 * 3600

IsLeap(year) == (year % 4 = 0) /\ ((year % 100 # 0) \/ (year % 400 = 0))

DaysInMonth(year, month) ==
    IF month = 2 THEN (IF IsLeap(year) THEN 29 ELSE 28)
    ELSE IF month \in {4, 6, 9, 11} THEN 30 ELSE 31

DaysBeforeYear(year) ==
    LET y == year - 1 IN y * 365 + (y \div 4) - (y \div 100) + (y \div 400)

RECURSIVE DaysBeforeMonth(_, _)
DaysBeforeMonth(year, month) ==
    IF month = 1 THEN 0
    ELSE DaysBeforeMonth(year, month - 1) + DaysInMonth(year, month - 1)

\* datetime(year, month, day).toordinal()
Ordinal(year, month, d) == DaysBeforeYear(year) + DaysBeforeMonth(year, month) + d

\* datetime(year, month, day) raises ValueError unless this holds
ValidDate(year, month, d) ==
    /\ year \in 1..9999
    /\ month \in 1..12
    /\ d >= 1
    /\ d <= DaysInMonth(year, month)

\* .year of the date with ordinal n (datetime's _ord2ymd)
Year(n) ==
    LET n0   == n - 1
        n400 == n0 \div 146097
        r400 == n0 % 146097
        n100 == r400 \div 36524
        r100 == r400 % 36524
        n4   == r100 \div 1461
        r4   == r100 % 1461
        n1   == r4 \div 365
        y    == n400 * 400 + 1 + n100 * 100 + n4 * 4 + n1
    IN IF n1 = 4 \/ n100 = 4 THEN y - 1 ELSE y

\* strftime("%j"): the day of the year, 1..366
DayOfYear(n) == n - DaysBeforeYear(Year(n))

RECURSIVE MonthFrom(_, _, _)
MonthFrom(year, doy, month) ==
    IF doy <= DaysBeforeMonth(year, month) + DaysInMonth(year, month)
    THEN month
    ELSE MonthFrom(year, doy, month + 1)

Month(n) == MonthFrom(Year(n), DayOfYear(n), 1)

DayOfMonth(n) == DayOfYear(n) - DaysBeforeMonth(Year(n), Month(n))

\* date.weekday(): Monday = 0 .. Sunday = 6
Weekday(n) == (n + 6) % 7

\* strftime("%w"): Sunday = 0 .. Saturday = 6
StrftimeW(n) == n % 7

Datetime(year, month, d, hour, minute, second, microsecond) ==
    [ord |-> Ordinal(year, month, d),
     sec |-> hour * 3600 + minute * 60 + second,
     us  |-> microsecond]

Hour(dt)   == dt.sec \div 3600
Minute(dt) == (dt.sec % 3600) \div 60
Second(dt) == dt.sec % 60

\* datetime.timedelta(days=, hours=, minutes=, seconds=)
Timedelta(days, hours, minutes, seconds) ==
    LET total == hours * 3600 + minutes * 60 + seconds
    IN [days |-> days + (total \div SecondsPerDay), secs |-> total % SecondsPerDay]

Days(n) == Timedelta(n, 0, 0, 0)

DtAdd(dt, td) ==
    LET total == dt.sec + td.secs
    IN [ord |-> dt.ord + td.days + (total \div SecondsPerDay),
        sec |-> total % SecondsPerDay,
        us  |-> dt.us]

DtSub(dt, td) ==
    LET total == dt.sec - td.secs
    IN [ord |-> dt.ord - td.days + (total \div SecondsPerDay),
        sec |-> total % SecondsPerDay,
        us  |-> dt.us]

\* ld_offset > p_offset in place of >=
TdGt(a, b) == a.days > b.days \/ (a.days = b.days /\ a.secs > b.secs)

TdGe(a, b) == a.days > b.days \/ (a.days = b.days /\ a.secs >= b.secs)

DtLt(a, b) ==
    \/ a.ord < b.ord
    \/ a.ord = b.ord /\ a.sec < b.sec
    \/ a.ord = b.ord /\ a.sec = b.sec /\ a.us < b.us

DtLe(a, b) == a = b \/ DtLt(a, b)

\* the cursor returned as it is, not truncated
MidnightKeep(dt) == dt

\* aux.replace(hour=0, minute=0, second=0, microsecond=0)
Midnight(dt) == [ord |-> dt.ord, sec |-> 0, us |-> 0]

----------------------------------------------------------------------------
(* Strings, as sequences of one-character strings: str(int), str.split and *)
(* int(str) as check_date_validity uses them on "YYYY-MM-DD".              *)

Digits == <<"0", "1", "2", "3", "4", "5", "6", "7", "8", "9">>

RECURSIVE Str(_)
Str(n) ==
    IF n < 0 THEN <<"-">> \o Str(0 - n)
    ELSE IF n < 10 THEN <<Digits[n + 1]>>
    ELSE Str(n \div 10) \o <<Digits[(n % 10) + 1]>>

DigitValue(c) == CHOOSE v \in 0..9 : Digits[v + 1] = c

RECURSIVE ParseInt(_)
ParseInt(s) ==
    IF Len(s) = 1 THEN DigitValue(s[1])
    ELSE ParseInt(SubSeq(s, 1, Len(s) - 1)) * 10 + DigitValue(s[Len(s)])

RECURSIVE Split(_, _)
Split(s, sep) ==
    IF \A i \in 1..Len(s) : s[i] # sep THEN <<s>>
    ELSE LET i == CHOOSE j \in 1..Len(s) :
                      s[j] = sep /\ \A k \in 1..(j - 1) : s[k] # sep
         IN <<SubSeq(s, 1, i - 1)>> \o Split(SubSeq(s, i + 1, Len(s)), sep)

CheckDateValidity(s) ==
    LET parts == Split(s, "-")
    IN ValidDate(ParseInt(parts[1]), ParseInt(parts[2]), ParseInt(parts[3]))

----------------------------------------------------------------------------
(* next_date(last_date, periodicity, day, time_).  The outcome is a record *)
(* [err, val]: err = "" and val the returned datetime, or err the raised   *)
(* exception.                                                              *)

Returns(dt) == [err |-> "", val |-> dt]
Raises(e)   == [err |-> e, val |-> [ord |-> 0, sec |-> 0, us |-> 0]]

\* result.replace(year=, month=, day=): ValueError on a calendar-invalid date
Replace(dt, year, month, d) ==
    IF ValidDate(year, month, d)
    THEN Returns([ord |-> Ordinal(year, month, d), sec |-> dt.sec, us |-> dt.us])
    ELSE Raises("ValueError")

NeverDate == Datetime(3000, 1, 1, 0, 0, 0, 0)

\* last_date - ld_offset + p_offset
Candidate(last, ld_offset, p_offset) == DtAdd(DtSub(last, ld_offset), p_offset)

NextDaily(last, d, t) ==
    LET ld_offset == Timedelta(0, Hour(last), Minute(last), Second(last))
        p_offset  == Timedelta(0, t.hour, t.minute, t.second)
        result    == Candidate(last, ld_offset, p_offset)
    IN IF TdGe(ld_offset, p_offset)
       THEN Returns(DtAdd(result, Days(1)))
       ELSE Returns(result)

NextWeekly(last, d, t) ==
    LET ld_offset == Timedelta(StrftimeW(last.ord), Hour(last), Minute(last), Second(last))
        p_offset  == Timedelta(d, t.hour, t.minute, t.second)
        result    == Candidate(last, ld_offset, p_offset)
    IN IF TdGe(ld_offset, p_offset)
       THEN Returns(DtAdd(result, Days(7)))
       ELSE Returns(result)

\* while not check_date_validity(...): day -= 1
RECURSIVE DecrementDay(_, _, _)
DecrementDay(year, month, d) ==
    IF CheckDateValidity(Str(year) \o <<"-">> \o Str(month) \o <<"-">> \o Str(d))
    THEN d
    ELSE DecrementDay(year, month, d - 1)

\* the month-end correction left out
WalkBackNone(result) == result

\* while result.day <= 4: result = result - timedelta(days=1)
RECURSIVE WalkBack(_)
WalkBack(result) ==
    IF DayOfMonth(result.ord) <= 4
    THEN WalkBack(DtSub(result, Days(1)))
    ELSE result

NextMonthly(last, d, t) ==
    LET ld_offset == Timedelta(DayOfMonth(last.ord), Hour(last), Minute(last), Second(last))
        p_offset  == Timedelta(d, t.hour, t.minute, t.second)
        result    == Candidate(last, ld_offset, p_offset)
    IN IF TdGe(ld_offset, p_offset)
       THEN LET month0 == Month(result.ord)
                month  == IF month0 < 12 THEN month0 + 1 ELSE 1
                year   == IF month0 < 12 THEN Year(result.ord) ELSE Year(result.ord) + 1
                d1     == DecrementDay(year, month, DayOfMonth(result.ord))
            IN Replace(result, year, month, d1)
       ELSE IF d >= 28 /\ DayOfMonth(result.ord) <= 4
       THEN Returns(WalkBack(result))
       ELSE Returns(result)

NextYearly(last, d, t) ==
    LET ld_offset == Timedelta(DayOfYear(last.ord), Hour(last), Minute(last), Second(last))
        p_offset  == Timedelta(d, t.hour, t.minute, t.second)
        result    == Candidate(last, ld_offset, p_offset)
    IN IF TdGe(ld_offset, p_offset)
       THEN Replace(result, Year(result.ord) + 1, Month(result.ord), DayOfMonth(result.ord))
       ELSE Returns(result)

NextDate(last, p, d, t) ==
    IF p = "never" THEN Returns(NeverDate)
    ELSE IF p = "daily" THEN NextDaily(last, d, t)
    ELSE IF p = "weekly" THEN NextWeekly(last, d, t)
    ELSE IF p = "monthly" THEN NextMonthly(last, d, t)
    ELSE IF p = "yearly" THEN NextYearly(last, d, t)
    ELSE Raises("ValueError: Wrong periodicity value")

----------------------------------------------------------------------------
(* Inputs of the model.                                                    *)

\* Number of consecutive days, from FirstDay on, a first last_date is drawn from
NumDays == 97
\* Number of days after them over which results are fed back as last_date
Horizon == 400

FirstDay == Ordinal(2020, 1, 27)
LastDay  == FirstDay + NumDays + Horizon

NoDate == [ord |-> 0, sec |-> 0, us |-> 0]

Time(hour, minute, second) == [hour |-> hour, minute |-> minute, second |-> second]

Times == {Time(0, 0, 0), Time(8, 30, 0), Time(23, 59, 59)}

\* seconds of the day and microseconds of a first last_date
LastClocks == {<<0, 0>>, <<30600, 0>>, <<30600, 500000>>, <<86399, 0>>}

\* The two last dates of the docstring of next_date
DocDates == {Datetime(2021, 1, 8, 0, 0, 0, 0), Datetime(2021, 1, 24, 0, 0, 0, 0)}

LastDates == {[ord |-> n, sec |-> c[1], us |-> c[2]] :
                 n \in FirstDay..(FirstDay + NumDays - 1), c \in LastClocks}
             \cup DocDates

Periodicities == {"daily", "weekly", "monthly", "yearly", "never", "hourly"}

\* The documented range of day for each periodicity (docstring of next_date)
ValidDay(p, d) ==
    IF p = "weekly" THEN d \in 0..6
    ELSE IF p = "monthly" THEN d \in 1..31
    ELSE IF p = "yearly" THEN d \in 1..366
    ELSE TRUE

\* Anchor days tried: the whole range for weekly and monthly, the days around
\* the end of February and the end of the year for yearly, and for each the
\* two values next to the range
AnchorDays(p) ==
    IF p = "weekly" THEN (0 - 1)..7
    ELSE IF p = "monthly" THEN 0..32
    ELSE IF p = "yearly" THEN {0, 1, 59, 60, 61, 365, 366, 367}
    ELSE {0, 99}

----------------------------------------------------------------------------
(* The recurrence: next_date is called on last_date, and its result is the *)
(* last_date of the next call.  prev_date is the argument of the last call *)
(* and status its outcome ("new" before the first call, "ok" for a         *)
(* returned datetime, else the exception raised).                          *)

InitTrigger ==
    /\ last_date \in LastDates
    /\ periodicity \in Periodicities
    /\ day \in AnchorDays(periodicity)
    /\ time_ \in Times
    /\ prev_date = NoDate
    /\ status = "new"
    /\ date = NoDate /\ period = "" /\ aligned = [op |-> "", val |-> <<>>]
    /\ it = [initial_date |-> NoDate] /\ out = <<>> /\ itstate = "" /\ restarted = FALSE
    /\ PersistIdle

NextDateCall ==
    /\ status \in {"new", "ok"}
    /\ last_date.ord <= LastDay
    /\ LET r == NextDate(last_date, periodicity, day, time_)
       IN /\ status' = (IF r.err = "" THEN "ok" ELSE r.err)
          /\ prev_date' = last_date
          /\ last_date' = (IF r.err = "" THEN r.val ELSE last_date)
    /\ UNCHANGED <<periodicity, day, time_, alignVars, datesVars, persistVars>>

NextTrigger == NextDateCall

SpecTrigger == InitTrigger /\ [][NextTrigger]_vars

----------------------------------------------------------------------------
(* Properties of next_date.                                                *)

Recurring == {"daily", "weekly", "monthly", "yearly"}

Called == status # "new"

\* C1: for daily, weekly, monthly and yearly with a day in the documented
\* range, next_date returns a timestamp strictly greater than last_date.
C1_StrictlyLater ==
    (status = "ok" /\ periodicity \in Recurring /\ ValidDay(periodicity, day))
        => DtLt(prev_date, last_date)

AnchorSec == time_.hour * 3600 + time_.minute * 60 + time_.second

\* the day with ordinal n is the anchor day of its week or month
OnAnchorDay(n) ==
    IF periodicity = "weekly" THEN (Weekday(n) + 1) % 7 = day
    ELSE IF periodicity = "monthly" THEN DayOfMonth(n) = day
    ELSE TRUE

AnchorAt(n) == [ord |-> n, sec |-> AnchorSec, us |-> 0]

C2_Covered ==
    /\ status = "ok"
    /\ prev_date.us = 0
    /\ \/ periodicity = "daily"
       \/ periodicity = "weekly" /\ day \in 0..6
       \/ periodicity = "monthly" /\ day \in 1..28

\* the result is the earliest timestamp strictly after last_date at the
\* anchor time on the anchor day (0 = Sunday for weekly)
C2_EarliestAnchor ==
    C2_Covered =>
        /\ DtLt(prev_date, last_date)
        /\ last_date = AnchorAt(last_date.ord)
        /\ OnAnchorDay(last_date.ord)
        /\ \A n \in prev_date.ord..last_date.ord :
              (OnAnchorDay(n) /\ DtLt(prev_date, AnchorAt(n)))
                  => DtLe(last_date, AnchorAt(n))

\* the two examples of the docstring: monthly, day 23, 08:30
C2_DocExample ==
    (status = "ok" /\ periodicity = "monthly" /\ day = 23 /\ time_ = Time(8, 30, 0)) =>
        /\ prev_date = Datetime(2021, 1, 8, 0, 0, 0, 0)
              => last_date = Datetime(2021, 1, 23, 8, 30, 0, 0)
        /\ prev_date = Datetime(2021, 1, 24, 0, 0, 0, 0)
              => last_date = Datetime(2021, 2, 23, 8, 30, 0, 0)

\* C2: for daily, weekly (day 0..6) and monthly (day 1..28) and a last_date
\* with whole seconds, the result is the earliest timestamp strictly after
\* last_date at the anchor time on the anchor day; so it is with the two
\* examples of the docstring.
C2_Theorem == C2_EarliestAnchor /\ C2_DocExample

\* a monthly rollover into the next month: the docstring's second example
C2_Witness ==
    /\ C2_Covered
    /\ periodicity = "monthly" /\ day = 23 /\ time_ = Time(8, 30, 0)
    /\ prev_date = Datetime(2021, 1, 24, 0, 0, 0, 0)
    /\ last_date = Datetime(2021, 2, 23, 8, 30, 0, 0)

\* C3: for a recognised periodicity and a day in the documented range,
\* next_date returns a timestamp and raises no error.
C3_NoError ==
    (Called /\ periodicity \in Recurring /\ ValidDay(periodicity, day))
        => status = "ok"

\* C4: a day outside the documented range is rejected with InvalidAnchor
\* before a trigger is computed; daily and never ignore day and never fail.
C4_InvalidAnchorRejected ==
    /\ (Called /\ ~ValidDay(periodicity, day)) => status = "InvalidAnchor"
    /\ (Called /\ periodicity \in {"daily", "never"}) => status = "ok"

----------------------------------------------------------------------------
(* The business-day aligner.  A result is a sequence of datetimes: <<>> is *)
(* None, <<d>> one datetime, <<monday, friday>> the returned tuple.        *)

\* monday_and_friday without the special case of Sunday
MondayAndFridayNoSunday(d) ==
    LET day_of_week == Weekday(d.ord)
    IN <<DtSub(d, Days(day_of_week)), DtAdd(d, Days(4 - day_of_week))>>

MondayAndFriday(d) ==
    LET wd          == Weekday(d.ord)
        day_of_week == IF wd = 6 THEN 0 - 1 ELSE wd
        monday      == DtSub(d, Days(day_of_week))
        friday      == DtAdd(d, Days(4 - day_of_week))
    IN <<monday, friday>>

\* FirstDayOfMonth moving a Saturday by one day only
FirstDayOfMonthOneDay(d) ==
    LET first_day == [ord |-> Ordinal(Year(d.ord), Month(d.ord), 1),
                      sec |-> d.sec, us |-> d.us]
    IN IF Weekday(first_day.ord) < 5 THEN <<first_day>>
       ELSE <<DtAdd(first_day, Days(1))>>

\* first_day.replace(day=1) and the move off a weekend
FirstDayOfMonth(d) ==
    LET first_day == [ord |-> Ordinal(Year(d.ord), Month(d.ord), 1),
                      sec |-> d.sec, us |-> d.us]
    IN IF Weekday(first_day.ord) < 5 THEN <<first_day>>
       ELSE IF Weekday(first_day.ord) = 5 THEN <<DtAdd(first_day, Days(2))>>
       ELSE <<DtAdd(first_day, Days(1))>>

\* one pass of the while True loop, next_day already advanced by one day
RECURSIVE ScanMonth(_, _)
ScanMonth(d, next_day) ==
    IF DayOfMonth(next_day.ord) > DayOfMonth(d.ord) /\ Weekday(next_day.ord) < 5
    THEN <<>>
    ELSE IF DayOfMonth(next_day.ord) <= DayOfMonth(d.ord)
    THEN FirstDayOfMonth(d)
    ELSE ScanMonth(d, DtAdd(next_day, Days(1)))

FirstDayInPeriod(p, d) ==
    IF Weekday(d.ord) > 4 THEN <<>>
    ELSE IF p = "daily" THEN <<d>>
    ELSE IF p = "weekly"
    THEN (IF Weekday(d.ord) = 4 THEN <<DtAdd(d, Days(0 - 4))>> ELSE <<>>)
    ELSE ScanMonth(d, DtAdd(d, Days(1)))

\* Number of consecutive days, from AlignFirstDay on, the date is drawn from
AlignDays == 800

AlignFirstDay == Ordinal(2020, 1, 1)

AlignDates == {[ord |-> n, sec |-> c, us |-> 0] :
                  n \in AlignFirstDay..(AlignFirstDay + AlignDays - 1), c \in {0, 30600}}

Periods == {"daily", "weekly", "monthly"}

InitAlign ==
    /\ date \in AlignDates
    /\ period \in Periods
    /\ aligned = [op |-> "", val |-> <<>>]
    /\ last_date = NoDate /\ periodicity = "" /\ day = 0 /\ time_ = Time(0, 0, 0)
    /\ prev_date = NoDate /\ status = ""
    /\ it = [initial_date |-> NoDate] /\ out = <<>> /\ itstate = "" /\ restarted = FALSE
    /\ PersistIdle

MondayAndFridayCall ==
    /\ aligned' = [op |-> "monday_and_friday", val |-> MondayAndFriday(date)]
    /\ UNCHANGED <<date, period, trigVars, datesVars, persistVars>>

FirstDayInPeriodCall ==
    /\ aligned' = [op |-> "first_day_in_period", val |-> FirstDayInPeriod(period, date)]
    /\ UNCHANGED <<date, period, trigVars, datesVars, persistVars>>

NextAlign == MondayAndFridayCall \/ FirstDayInPeriodCall

SpecAlign == InitAlign /\ [][NextAlign]_vars

----------------------------------------------------------------------------
(* Properties of the business-day aligner.                                 *)

\* the ordinal of the Sunday on or before day n
SundayOnOrBefore(n) == n - StrftimeW(n)

\* C5: monday_and_friday(d) returns a Monday and the Friday four days after
\* it; every date from a Sunday to the next Saturday gets the Monday that
\* follows that Sunday.
C5_WeekPair ==
    aligned.op = "monday_and_friday" =>
        LET monday == aligned.val[1]
            friday == aligned.val[2]
        IN /\ Weekday(monday.ord) = 0
           /\ Weekday(friday.ord) = 4
           /\ friday = DtAdd(monday, Days(4))
           /\ monday.ord = SundayOnOrBefore(date.ord) + 1

\* the doctest: Sunday 2021-11-28 gives (2021-11-29, 2021-12-03)
C5_Witness ==
    /\ aligned.op = "monday_and_friday"
    /\ date = Datetime(2021, 11, 28, 0, 0, 0, 0)
    /\ aligned.val = <<Datetime(2021, 11, 29, 0, 0, 0, 0), Datetime(2021, 12, 3, 0, 0, 0, 0)>>

SameMonth(a, b) == Year(a) = Year(b) /\ Month(a) = Month(b)

IsLastBusinessDay(n) ==
    /\ Weekday(n) <= 4
    /\ \A k \in (n + 1)..(n + 31) : SameMonth(k, n) => Weekday(k) > 4

FirstBusinessDay(n) ==
    LET first == Ordinal(Year(n), Month(n), 1)
    IN IF Weekday(first) = 5 THEN first + 2
       ELSE IF Weekday(first) = 6 THEN first + 1
       ELSE first

----------------------------------------------------------------------------
(* class Dates.  it holds the fields of the instance; None is NoDate (no   *)
(* datetime has ordinal 0).  A yielded element is a sequence: <<d>> for a  *)
(* single date, <<start, end>> for a window.                               *)

None == NoDate
IsSet(x) == x # None

\* the constants of the one-bound modes of __next__
WalkLimit == 180
Cadence   == 7
WindowLen == 4

\* Days before IterFirstDay below which datetime arithmetic overflows: the
\* model's stand-in for datetime.min
Underflow == 12

\* Number of days after IterFirstDay the bounds are drawn from
IterSpan == 4
\* Longest sequence of yielded elements that out records
MaxOut == 27

IterFirstDay == Ordinal(2021, 1, 1)
DateMin      == IterFirstDay - Underflow

IterDates == {[ord |-> n, sec |-> c[1], us |-> c[2]] :
                 n \in IterFirstDay..(IterFirstDay + IterSpan),
                 c \in {<<0, 0>>, <<30600, 500000>>}}

\* The end dates of the iterators built with end_date only: late enough for
\* the backward walk of WalkLimit days to stay above DateMin
OpenEndDates == {DtAdd(d, Days(WalkLimit + Cadence)) : d \in IterDates}

Steps == {0 - 1, 0, 1, 2, 3}

\* __init__ starting the cursor at initial_date in every mode
DatesInitFromInitial(initial_date, end_date, step) ==
    [step |-> step, initial_date |-> initial_date, end_date |-> end_date,
     date |-> initial_date]

\* __init__(initial_date, end_date, step)
DatesInit(initial_date, end_date, step) ==
    [step         |-> step,
     initial_date |-> initial_date,
     end_date     |-> end_date,
     date         |-> IF ~IsSet(end_date) \/ (IsSet(initial_date) /\ IsSet(end_date))
                      THEN initial_date
                      ELSE end_date]

\* self.date += timedelta(days=n), then the returned element
Moved(self, n, element) ==
    IF self.date.ord + n < DateMin
    THEN [self |-> self, res |-> "OverflowError", val |-> <<>>]
    ELSE [self |-> [self EXCEPT !.date = DtAdd(self.date, Days(n))],
          res  |-> "yielded", val |-> element]

Stopped(self) == [self |-> self, res |-> "StopIteration", val |-> <<>>]

\* __next__
DatesNext(self) ==
    LET aux == self.date
    IN IF IsSet(self.initial_date) /\ IsSet(self.end_date)
       THEN IF DtLt(self.end_date, self.date)
            THEN Stopped(self)
            ELSE Moved(self, self.step, <<Midnight(aux)>>)
       ELSE IF ~IsSet(self.initial_date)
       THEN IF DtLe(self.date, DtAdd(self.end_date, Days(0 - WalkLimit)))
            THEN Stopped(self)
            ELSE Moved(self, 0 - Cadence,
                       <<DtAdd(Midnight(aux), Days(0 - WindowLen)), Midnight(aux)>>)
       ELSE IF DtLe(DtAdd(self.initial_date, Days(WalkLimit)), self.date)
            THEN Stopped(self)
            ELSE Moved(self, Cadence,
                       <<Midnight(aux), DtAdd(Midnight(aux), Days(WindowLen))>>)

\* The state after construction: the assert of __init__ holds, and at least
\* one bound is given.
InitDates ==
    /\ \E initial_date \in IterDates \cup {None},
          end_date \in IterDates \cup OpenEndDates \cup {None},
          step \in Steps :
          /\ IsSet(initial_date) \/ IsSet(end_date)
          /\ end_date \in OpenEndDates <=> ~IsSet(initial_date)
          /\ (IsSet(initial_date) /\ IsSet(end_date)) => DtLe(initial_date, end_date)
          /\ it = DatesInit(initial_date, end_date, step)
    /\ out = <<>>
    /\ itstate = "new"
    /\ restarted = FALSE
    /\ PersistIdle
    /\ last_date = NoDate /\ periodicity = "" /\ day = 0 /\ time_ = Time(0, 0, 0)
    /\ prev_date = NoDate /\ status = ""
    /\ date = NoDate /\ period = "" /\ aligned = [op |-> "", val |-> <<>>]

\* next(it): out is the sequence of elements yielded since the last __iter__
\* (its first MaxOut elements), itstate the outcome of the last call.
Advance ==
    /\ LET r == DatesNext(it)
       IN /\ it' = r.self
          /\ itstate' = r.res
          /\ out' = IF r.res = "yielded" /\ Len(out) < MaxOut
                    THEN Append(out, r.val)
                    ELSE out
    /\ UNCHANGED <<restarted, trigVars, alignVars, persistVars>>

\* iter(it): __iter__ returns self and changes no field. A new iteration
\* starts; restarted tells whether the instance had been advanced before.
Iter ==
    /\ ~restarted
    /\ out' = <<>>
    /\ restarted' = (itstate # "new")
    /\ itstate' = IF itstate = "new" THEN "new" ELSE "iter"
    /\ UNCHANGED <<it, trigVars, alignVars, persistVars>>

NextDates == Advance \/ Iter

SpecDates == InitDates /\ [][NextDates]_vars

\* next() is called again and again
FairSpecDates == SpecDates /\ WF_vars(Advance)

----------------------------------------------------------------------------
(* Properties of the Dates iterator.                                       *)

Bounded      == IsSet(it.initial_date) /\ IsSet(it.end_date)
BackwardOpen == ~IsSet(it.initial_date) /\ IsSet(it.end_date)
ForwardOpen  == IsSet(it.initial_date) /\ ~IsSet(it.end_date)

Plus(dt, n) == DtAdd(dt, Days(n))

\* the date of dt at 00:00:00
AtMidnight(dt) == [ord |-> dt.ord, sec |-> 0, us |-> 0]

\* the cursor of a bounded iterator before its (k+1)-th advance
CursorAt(k) == Plus(it.initial_date, k * it.step)

\* C7: a bounded iterator with step >= 1 yields exactly initial_date + k*step
\* days at midnight, k = 0, 1, ..., while that cursor is <= end_date, and is
\* exhausted at the first cursor beyond end_date.
C7_BoundedSequence ==
    (Bounded /\ it.step >= 1 /\ ~restarted) =>
        /\ \A k \in 1..Len(out) :
              /\ out[k] = <<AtMidnight(CursorAt(k - 1))>>
              /\ DtLe(CursorAt(k - 1), it.end_date)
        /\ itstate = "yielded" => Len(out) >= 1
        /\ itstate = "StopIteration" => DtLt(it.end_date, CursorAt(Len(out)))
        /\ itstate \in {"new", "yielded", "StopIteration"}

\* 2021-01-01 to 2021-01-03 with a step of 2 and a time of day: two
\* elements, then exhaustion
C7_Witness ==
    /\ Bounded /\ ~restarted
    /\ it.step = 2
    /\ it.initial_date = Datetime(2021, 1, 1, 8, 30, 0, 500000)
    /\ it.end_date = Datetime(2021, 1, 3, 8, 30, 0, 500000)
    /\ itstate = "StopIteration"
    /\ out = << <<Datetime(2021, 1, 1, 0, 0, 0, 0)>>, <<Datetime(2021, 1, 3, 0, 0, 0, 0)>> >>

\* the k-th window (k = 0, 1, ...) of a one-bound iterator
WindowAt(k) ==
    IF BackwardOpen
    THEN <<AtMidnight(Plus(it.end_date, 0 - (7 * k + 4))), AtMidnight(Plus(it.end_date, 0 - 7 * k))>>
    ELSE <<AtMidnight(Plus(it.initial_date, 7 * k)), AtMidnight(Plus(it.initial_date, 7 * k + 4))>>

\* C8: a one-bound iterator ignores step and yields the windows
\* [B - 7k - 4, B - 7k] (only end_date) or [B + 7k, B + 7k + 4] (only
\* initial_date) at midnight, start <= end, for exactly k = 0..25.
C8_Windows ==
    ((BackwardOpen \/ ForwardOpen) /\ ~restarted) =>
        /\ \A k \in 1..Len(out) :
              /\ out[k] = WindowAt(k - 1)
              /\ DtLe(out[k][1], out[k][2])
        /\ Len(out) <= 26
        /\ itstate = "StopIteration" => Len(out) = 26
        /\ itstate \in {"new", "yielded", "StopIteration"}

\* the same for an iterator built with initial_date only
C8_WitnessForward ==
    /\ ForwardOpen /\ ~restarted
    /\ it.initial_date = Datetime(2021, 1, 1, 0, 0, 0, 0)
    /\ itstate = "StopIteration"
    /\ out[26] = <<Datetime(2021, 6, 25, 0, 0, 0, 0), Datetime(2021, 6, 29, 0, 0, 0, 0)>>

C8_Witness ==
    /\ BackwardOpen /\ ~restarted
    /\ it.step = 3
    /\ it.end_date = Datetime(2021, 7, 9, 8, 30, 0, 500000)
    /\ itstate = "StopIteration"
    /\ Len(out) = 26
    /\ out[1] = <<Datetime(2021, 7, 5, 0, 0, 0, 0), Datetime(2021, 7, 9, 0, 0, 0, 0)>>
    /\ out[26] = <<Datetime(2021, 1, 11, 0, 0, 0, 0), Datetime(2021, 1, 15, 0, 0, 0, 0)>>

\* C9: for every construction with at least one bound and every integer
\* step, repeated advancing reaches exhaustion.
C9_Finite == <>(itstate = "StopIteration")

\* the first element of the sequence of the instance
FirstElement ==
    IF Bounded THEN <<AtMidnight(it.initial_date)>> ELSE WindowAt(0)

\* C10: an iteration started on an instance already advanced yields the
\* complete sequence again, from its first element.
C10_Restartable ==
    /\ Len(out) >= 1 => out[1] = FirstElement
    /\ itstate = "StopIteration" => Len(out) >= 1

----------------------------------------------------------------------------
(* persistent_generate(elements, name) over the elements of a Dates        *)
(* iterator, with the recovery file of PendingWork.  A Python value is a   *)
(* record [type, v]: None, a str (sequence of characters), a datetime or a *)
(* list of datetimes.                                                      *)

PyNone        == [type |-> "None", v |-> <<>>]
PyStr(chars)  == [type |-> "str", v |-> chars]
PyDatetime(d) == [type |-> "datetime", v |-> d]
PyList(l)     == [type |-> "list", v |-> l]

\* a != b: values of different types are never equal
PyNe(a, b) == IF a.type = b.type THEN a.v # b.v ELSE TRUE

\* "%0wd" % n
RECURSIVE Pad(_, _)
Pad(chars, w) == IF Len(chars) >= w THEN chars ELSE Pad(<<"0">> \o chars, w)

\* str(datetime): isoformat(sep=' ')
StrDatetime(d) ==
    Pad(Str(Year(d.ord)), 4) \o <<"-">> \o Pad(Str(Month(d.ord)), 2) \o <<"-">>
        \o Pad(Str(DayOfMonth(d.ord)), 2) \o <<" ">>
        \o Pad(Str(Hour(d)), 2) \o <<":">> \o Pad(Str(Minute(d)), 2) \o <<":">>
        \o Pad(Str(Second(d)), 2)
        \o (IF d.us # 0 THEN <<".">> \o Pad(Str(d.us), 6) ELSE <<>>)

\* repr(datetime)
ReprDatetime(d) ==
    <<"d", "a", "t", "e", "t", "i", "m", "e", ".",
      "d", "a", "t", "e", "t", "i", "m", "e", "(">>
        \o Str(Year(d.ord)) \o <<",", " ">> \o Str(Month(d.ord)) \o <<",", " ">>
        \o Str(DayOfMonth(d.ord)) \o <<",", " ">> \o Str(Hour(d)) \o <<",", " ">>
        \o Str(Minute(d))
        \o (IF d.us # 0
            THEN <<",", " ">> \o Str(Second(d)) \o <<",", " ">> \o Str(d.us)
            ELSE IF Second(d) # 0 THEN <<",", " ">> \o Str(Second(d)) ELSE <<>>)
        \o <<")">>

\* str(list): the reprs of the items
RECURSIVE ReprItems(_)
ReprItems(l) ==
    IF Len(l) = 0 THEN <<>>
    ELSE IF Len(l) = 1 THEN ReprDatetime(l[1])
    ELSE ReprDatetime(l[1]) \o <<",", " ">> \o ReprItems(Tail(l))

\* str(element)
StrOf(x) ==
    IF x.type = "datetime" THEN StrDatetime(x.v)
    ELSE IF x.type = "list" THEN <<"[">> \o ReprItems(x.v) \o <<"]">>
    ELSE x.v

IsDigits(chars) ==
    /\ Len(chars) >= 1
    /\ \A i \in 1..Len(chars) : \E v \in 0..9 : Digits[v + 1] = chars[i]

\* datetime.datetime.strptime(chars, "%Y-%m-%d %H:%M:%S")
Strptime(chars) ==
    LET halves == Split(chars, " ")
        ymd    == Split(halves[1], "-")
        hms    == Split(halves[2], ":")
    IN IF /\ Len(halves) = 2
          /\ Len(ymd) = 3 /\ Len(hms) = 3
          /\ \A i \in 1..3 : IsDigits(ymd[i]) /\ IsDigits(hms[i])
          /\ ValidDate(ParseInt(ymd[1]), ParseInt(ymd[2]), ParseInt(ymd[3]))
          /\ ParseInt(hms[1]) < 24 /\ ParseInt(hms[2]) < 60 /\ ParseInt(hms[3]) < 62
       THEN Returns(Datetime(ParseInt(ymd[1]), ParseInt(ymd[2]), ParseInt(ymd[3]),
                             ParseInt(hms[1]), ParseInt(hms[2]), ParseInt(hms[3]), 0))
       ELSE Raises("ValueError")

\* PendingWork.read(): None without a file, else its first line
PendingRead(f) ==
    IF f = NoFile THEN PyNone
    ELSE IF Len(f) > 0 /\ f[Len(f)] = "\n" THEN PyStr(SubSeq(f, 1, Len(f) - 1))
    ELSE PyStr(f)

\* an element of the Dates sequence as a Python value
Element(val) == IF Len(val) = 1 THEN PyDatetime(val[1]) ELSE PyList(val)

\* isinstance(x, datetime.date)
IsDate(x) == x.type = "datetime"

\* The for loop of persistent_generate from the fetch of the next element to
\* the next yield, or through pending_work.clear() to the end.
RECURSIVE PGLoop(_, _, _, _)
PGLoop(initial_element, ind, iter, f) ==
    LET r == DatesNext(iter)
    IN IF r.res # "yielded"
       THEN IF r.res # "StopIteration"
            THEN [pc |-> r.res, initial_element |-> initial_element, ind |-> ind,
                  it |-> r.self, file |-> f, val |-> <<>>]
            ELSE IF f = NoFile
            THEN [pc |-> "FileExistsError", initial_element |-> initial_element,
                  ind |-> ind, it |-> r.self, file |-> f, val |-> <<>>]
            ELSE [pc |-> "done", initial_element |-> initial_element, ind |-> ind,
                  it |-> r.self, file |-> NoFile, val |-> <<>>]
       ELSE
         LET element == Element(r.val)
             coerce  == initial_element.type # "None" /\ ~IsDate(initial_element)
                           /\ IsDate(element)
             parsed  == Strptime(initial_element.v)
             ie      == IF coerce THEN PyDatetime(parsed.val) ELSE initial_element
         IN IF coerce /\ parsed.err # ""
            THEN [pc |-> parsed.err, initial_element |-> initial_element, ind |-> ind,
                  it |-> r.self, file |-> f, val |-> <<>>]
            ELSE IF ie.type # "None" /\ PyNe(ie, element)
            THEN PGLoop(ie, ind + 1, r.self, f)
            ELSE [pc |-> "yielded", initial_element |-> PyNone, ind |-> ind + 1,
                  it |-> r.self, file |-> StrOf(element), val |-> <<ind, element>>]

\* Number of runs that may be abandoned
MaxCrashes == 2

\* A first run of persistent_generate over a new Dates iterator whose
\* elements are pairwise distinct (step >= 1), with no recovery file.
InitPersist ==
    /\ \E initial_date \in IterDates \cup {None},
          end_date \in IterDates \cup OpenEndDates \cup {None},
          step \in Steps :
          /\ step >= 1
          /\ IsSet(initial_date) \/ IsSet(end_date)
          /\ end_date \in OpenEndDates <=> ~IsSet(initial_date)
          /\ (IsSet(initial_date) /\ IsSet(end_date)) => DtLe(initial_date, end_date)
          /\ it = DatesInit(initial_date, end_date, step)
    /\ out = <<>> /\ itstate = "new" /\ restarted = FALSE
    /\ file = NoFile
    /\ pg = [pc |-> "start", initial_element |-> PyNone, ind |-> 0]
    /\ pgout = <<>>
    /\ crash_at = <<>>
    /\ last_date = NoDate /\ periodicity = "" /\ day = 0 /\ time_ = Time(0, 0, 0)
    /\ prev_date = NoDate /\ status = ""
    /\ date = NoDate /\ period = "" /\ aligned = [op |-> "", val |-> <<>>]

\* next() on the generator: from its start (pending_work.read()) or from the
\* last yield to the next yield or the end. pg.ind is the index enumerate
\* gives the next element; pgout the (index, element) pairs of this run.
PGNext ==
    /\ pg.pc \in {"start", "yielded"}
    /\ LET r == PGLoop(IF pg.pc = "start" THEN PendingRead(file) ELSE pg.initial_element,
                       pg.ind, it, file)
       IN /\ pg' = [pc |-> r.pc, initial_element |-> r.initial_element, ind |-> r.ind]
          /\ it' = r.it
          /\ file' = r.file
          /\ pgout' = IF r.pc = "yielded" THEN Append(pgout, r.val) ELSE pgout
    /\ UNCHANGED <<out, itstate, restarted, crash_at, trigVars, alignVars>>

\* The run is abandoned right after a yield, and a new run starts with the
\* same name over the same sequence: a new iterator, the file as it is.
\* crash_at gets the index of the element yielded last.
Crash ==
    /\ pg.pc = "yielded"
    /\ Len(crash_at) < MaxCrashes
    /\ crash_at' = Append(crash_at, pg.ind - 1)
    /\ pg' = [pc |-> "start", initial_element |-> PyNone, ind |-> 0]
    /\ it' = DatesInit(it.initial_date, it.end_date, it.step)
    /\ pgout' = <<>>
    /\ UNCHANGED <<file, out, itstate, restarted, trigVars, alignVars>>

NextPersist == PGNext \/ Crash

SpecPersist == InitPersist /\ [][NextPersist]_vars

----------------------------------------------------------------------------
(* Properties of persistent_generate.                                      *)

\* the element e_k of the sequence of the iterator, k = 0, 1, ...
ExpectedElement(k) ==
    IF Bounded
    THEN [type |-> "datetime", v |-> AtMidnight(CursorAt(k))]
    ELSE [type |-> "list", v |-> WindowAt(k)]

\* the number of elements of the sequence
ExpectedCount ==
    IF Bounded
    THEN Cardinality({k \in 0..40 : DtLe(CursorAt(k), it.end_date)})
    ELSE 26

\* the run follows a crash right after e_k: it yields (index, element) from
\* e_k on, in order, up to the last element, and only then clears the file
RecoversFromCrash ==
    crash_at # <<>> =>
        LET k == crash_at[Len(crash_at)]
        IN /\ \A i \in 1..Len(pgout) :
                 pgout[i] = <<k + i - 1, ExpectedElement(k + i - 1)>>
           /\ pg.pc \in {"start", "yielded", "done"}
           /\ pg.pc = "done" => Len(pgout) = ExpectedCount - k
           /\ file = NoFile => pg.pc = "done"

\* C11: a run of persistent_generate that follows a crash right after e_k
\* yields nothing before e_k, then (index, element) for e_k to e_n in order,
\* and clears the recovery file only after e_n, for single dates and for
\* two-date windows alike.
C11_Recovery == RecoversFromCrash

\* the same for the single dates of an iterator with both bounds
C11_SingleDates == Bounded => RecoversFromCrash

----------------------------------------------------------------------------
(* The monthly anchor day in months of different lengths.                  *)

\* months since year 0 of the month of the day with ordinal n
MonthIndex(n) == Year(n) * 12 + Month(n)

\* the number of days of the month of the day with ordinal n
MonthLength(n) ==
    LET first == n - DayOfMonth(n) + 1
    IN CHOOSE d \in 28..31 :
          /\ MonthIndex(first + d - 1) = MonthIndex(n)
          /\ MonthIndex(first + d) # MonthIndex(n)

C12_Covered == status = "ok" /\ periodicity = "monthly" /\ day \in 1..31

\* C12: for monthly with day in 1..31 the result lies in the month of
\* last_date or in the next one, and its day of the month is the smaller of
\* the anchor day and the length of its month: at most 3 days less than the
\* anchor day, and never in days 1..4 of a later month for an anchor day
\* that its month lacks.
C12_MonthlyClamp ==
    C12_Covered =>
        /\ MonthIndex(last_date.ord) - MonthIndex(prev_date.ord) \in {0, 1}
        /\ DayOfMonth(last_date.ord) =
              (IF day <= MonthLength(last_date.ord) THEN day ELSE MonthLength(last_date.ord))
        /\ day - DayOfMonth(last_date.ord) \in 0..3
        /\ day >= 28 => DayOfMonth(last_date.ord) > 4

\* day 31 from 2020-03-31 08:30 rolls over into April, a month of 30 days
C12_Witness ==
    /\ C12_Covered
    /\ day = 31 /\ time_ = Time(0, 0, 0)
    /\ prev_date = Datetime(2020, 3, 31, 8, 30, 0, 0)
    /\ last_date = Datetime(2020, 4, 30, 0, 0, 0, 0)

\* day 31 from 2020-04-15: no rollover, the candidate 2020-05-01 walked back
C12_WitnessWalkBack ==
    /\ C12_Covered
    /\ day = 31 /\ time_ = Time(8, 30, 0)
    /\ prev_date = Datetime(2020, 4, 15, 0, 0, 0, 0)
    /\ last_date = Datetime(2020, 4, 30, 8, 30, 0, 0)

====
